---- MODULE Spec2Model ----
(***************************************************************************)
(* A model of gitlab-safe-push (src/src/main.rs): the blocking evaluator   *)
(* (check_pipeline_blocking and its helpers), the active pipeline scanner  *)
(* (check_blocking_pipelines), the poll loop (wait_for_pipeline) and the   *)
(* orchestrator (safe_push).                                               *)
(*                                                                         *)
(* Data representation                                                     *)
(*   Option<T>     None == [some |-> FALSE], Some(x) == [some |-> TRUE,..] *)
(*   Result<T,E>   Ok(x) == [ok |-> TRUE, v |-> x], Err(e)                 *)
(*   timestamp     a string is either RFC 3339 text of an instant          *)
(*                 (Rfc(t), t in seconds) or text that does not parse      *)
(*                 (Garbage); parse_datetime recovers the instant or None  *)
(*   u64           [wrapped, n]: the value n when not wrapped, and         *)
(*                 2^64 + n (n < 0) when wrapped, which is what the cast   *)
(*                 `i64 as u64` yields for a negative n                    *)
(*   String        the payload of a BlockingReason is a sequence of text   *)
(*                 pieces, so that format!("{} (post-block)", s) is        *)
(*                 concatenation and differs from s                        *)
(***************************************************************************)
EXTENDS Integers, Sequences, FiniteSets, TLC

VARIABLES
    cfg,        \* the GitLabSafePush struct built by new()
    wait,       \* safe_push's `wait` argument (main: !cli.no_wait)
    pc,         \* position of the single thread of control
    resp,       \* what the most recent pipeline-list fetch returned
    last,       \* what the most recent check_blocking_pipelines returned
    initial,    \* the initial check: "none", "error", "empty" or "blocked"
    loopState,  \* poll loop: "NotEntered", "Waiting", "Cleared", "Failed"
    loopPasses, \* scanner passes made inside wait_for_pipeline
    loopBlocked,\* those of them that returned a non-empty list
    loopSleeps, \* sleeps made inside wait_for_pipeline
    sleptSecs,  \* total seconds slept inside wait_for_pipeline
    pushes,     \* invocations of do_push
    pushedOn,   \* pc at which do_push was invoked ("" before)
    outcome,    \* what safe_push returned: "running", "true", "false", "error"
    jobs,       \* evaluator harness: the job list under evaluation
    evalPhase,  \* evaluator harness: "input" or "done"
    evalStages, \* evaluator harness: get_stage_order(jobs)
    evalResult  \* evaluator harness: check_pipeline_blocking's return value

vars == <<cfg, wait, pc, resp, last, initial, loopState, loopPasses, loopBlocked,
          loopSleeps, sleptSecs, pushes, pushedOn, outcome,
          jobs, evalPhase, evalStages, evalResult>>

orchVars == <<wait, pc, resp, last, initial, loopState, loopPasses, loopBlocked,
              loopSleeps, sleptSecs, pushes, pushedOn, outcome>>

evalVars == <<jobs, evalPhase, evalStages, evalResult>>

-----------------------------------------------------------------------------
(* Bounds of the model *)

MaxJobs == 2

MaxPipelines == 2

MaxPasses == 3

(* Program constants *)

PreBlockDefault == 15

PostBlockDefault == 5

CheckIntervalDefault == 30

(* The reading of Utc::now() in seconds; timestamps are drawn around it. *)
NowSecs == 100

-----------------------------------------------------------------------------
(* Option, Result, strings, u64 *)

None == [some |-> FALSE]

Some(x) == [some |-> TRUE, v |-> x]

Ok(x) == [ok |-> TRUE, v |-> x]

Err(e) == [ok |-> FALSE, err |-> e]

Range(s) == {s[i] : i \in 1..Len(s)}

SeqsUpTo(S, n) == UNION {[1..k -> S] : k \in 0..n}

Rfc(t) == [rfc |-> TRUE, secs |-> t]

Garbage == [rfc |-> FALSE, secs |-> 0]

(* `x as u64` for a signed 64-bit x. *)
AsU64(x) == [wrapped |-> x < 0, n |-> x]

(* a >= d and a < d for a u64 a and a duration d below 2^63. *)
U64Ge(a, d) == a.wrapped \/ a.n >= d

U64Lt(a, d) == ~a.wrapped /\ a.n < d

-----------------------------------------------------------------------------
(* BlockingReason *)

SimpleMode == [tag |-> "SimpleMode"]

BlockingStageRunning(s) == [tag |-> "BlockingStageRunning", stage |-> s]

BlockingJobRunning(n) == [tag |-> "BlockingJobRunning", job |-> n]

PreBlockingStage(s, secs) == [tag |-> "PreBlockingStage", stage |-> s, seconds |-> secs]

-----------------------------------------------------------------------------
(* GitLabSafePush::new: the resolution of the blocking settings and of the *)
(* mode. cliStage/cliJobs/cliSimple are the command line's values,         *)
(* fileSimple the config file's simple_mode (an Option<bool>).             *)

new(cliStage, cliJobs, pre, post, interval, cliSimple, fileSimple) ==
    LET has_blocking_config == cliStage.some \/ cliJobs # <<>>
        simple == IF has_blocking_config
                  THEN FALSE
                  ELSE cliSimple \/ (IF fileSimple.some THEN fileSimple.v ELSE TRUE)
    IN  [blocking_stage      |-> cliStage,
         blocking_jobs       |-> cliJobs,
         pre_block_duration  |-> pre,
         post_block_duration |-> post,
         check_interval      |-> interval,
         simple_mode         |-> simple]

-----------------------------------------------------------------------------
(* Elapsed time *)

parse_datetime(s) == IF s.rfc THEN Some(s.secs) ELSE None

(* seconds_since_start with a missing value read as zero seconds (an *)
(* unwrap_or(0)): C9 does not hold of it.                            *)
seconds_since_start_or_zero(started_at, created_at) ==
    LET start == IF started_at.some THEN parse_datetime(started_at.v) ELSE None
        created == parse_datetime(created_at)
    IN  IF start.some
        THEN Some(AsU64(NowSecs - start.v))
        ELSE IF created.some
             THEN Some(AsU64(NowSecs - created.v))
             ELSE Some(AsU64(0))

seconds_since_start(started_at, created_at) ==
    LET now == NowSecs
        start == IF started_at.some THEN parse_datetime(started_at.v) ELSE None
        created == parse_datetime(created_at)
    IN  IF start.some
        THEN Some(AsU64(now - start.v))
        ELSE IF created.some
             THEN Some(AsU64(now - created.v))
             ELSE None

-----------------------------------------------------------------------------
(* Stage order *)

RECURSIVE stage_order_loop(_, _, _, _)
stage_order_loop(js, k, stages, stage_set) ==
    IF k > Len(js)
    THEN stages
    ELSE IF js[k].stage \notin stage_set
         THEN stage_order_loop(js, k + 1, Append(stages, js[k].stage),
                               stage_set \cup {js[k].stage})
         ELSE stage_order_loop(js, k + 1, stages, stage_set)

(* get_stage_order without the stage_set test: C7 does not hold of it. *)
get_stage_order_every_job(js) == [k \in 1..Len(js) |-> js[k].stage]

get_stage_order(js) == stage_order_loop(js, 1, <<>>, {})

(* Vec::iter().position: the 0-based index of the first equal element. *)
find_stage_index(stages, target) ==
    LET hits == {i \in 1..Len(stages) : stages[i] = target}
    IN  IF hits = {}
        THEN None
        ELSE Some((CHOOSE i \in hits : \A j \in hits : i <= j) - 1)

saturating_sub(a, b) == IF a >= b THEN a - b ELSE 0

-----------------------------------------------------------------------------
(* Blocking evaluator *)

(* "running" | "pending" => ..., _ => {} *)
job_is_active(status) == status \in {"running", "pending"}

(* current_idx == blocking_idx.saturating_sub(1) *)
is_pre_block_stage(current_idx, blocking_idx) ==
    current_idx = saturating_sub(blocking_idx, 1)

(* current_idx == blocking_idx + 1 *)
is_post_block_stage(current_idx, blocking_idx) ==
    current_idx = blocking_idx + 1

(* The pre-block comparison with the boundary excluded: C5 does not hold *)
(* of it.                                                                *)
pre_block_reached_exclusive(seconds_running, pre_block_duration) ==
    seconds_running.wrapped \/ seconds_running.n > pre_block_duration

(* seconds_running >= self.pre_block_duration *)
pre_block_reached(seconds_running, pre_block_duration) ==
    U64Ge(seconds_running, pre_block_duration)

(* The post-block comparison with the boundary included: C6 does not hold *)
(* of it.                                                                 *)
post_block_active_inclusive(seconds_running, post_block_duration) ==
    ~seconds_running.wrapped /\ seconds_running.n <= post_block_duration

(* seconds_running < self.post_block_duration *)
post_block_active(seconds_running, post_block_duration) ==
    U64Lt(seconds_running, post_block_duration)

(* The response of GET .../pipelines/:id/jobs for this pipeline: the model *)
(* carries it in the pipeline record (Ok(job list) or Err).                *)
get_pipeline_jobs(pipeline) == pipeline.jobs

(* for job in &jobs { if self.blocking_jobs.contains(&job.name) { ... } } *)
RECURSIVE named_job_loop(_, _, _)
named_job_loop(c, js, k) ==
    IF k > Len(js)
    THEN None
    ELSE IF /\ js[k].name \in Range(c.blocking_jobs)
            /\ job_is_active(js[k].status)
         THEN Some(BlockingJobRunning(js[k].name))
         ELSE named_job_loop(c, js, k + 1)

(* The pre-block test of one active job outside the blocking stage. *)
pre_block_check(c, job, current_idx, blocking_idx) ==
    IF is_pre_block_stage(current_idx, blocking_idx)
    THEN LET seconds_running == seconds_since_start(job.started_at, job.created_at)
         IN  IF /\ seconds_running.some
                /\ pre_block_reached(seconds_running.v, c.pre_block_duration)
             THEN Some(PreBlockingStage(<<job.stage>>, seconds_running.v))
             ELSE None
    ELSE None

(* The post-block test of one active job outside the blocking stage. *)
post_block_check(c, job, current_idx, blocking_idx) ==
    IF is_post_block_stage(current_idx, blocking_idx)
    THEN LET seconds_running == seconds_since_start(job.started_at, job.created_at)
         IN  IF /\ seconds_running.some
                /\ post_block_active(seconds_running.v, c.post_block_duration)
             THEN Some(BlockingStageRunning(<<job.stage, " (post-block)">>))
             ELSE None
    ELSE None

(* The body of the stage loop with the pre-block test made before the test *)
(* for the blocking stage itself: C11 does not hold of it.                 *)
stage_job_step_pre_first(c, job, stages, blocking_stage_idx) ==
    IF ~job_is_active(job.status)
    THEN None
    ELSE LET current_stage_idx == find_stage_index(stages, job.stage)
             pre == IF blocking_stage_idx.some /\ current_stage_idx.some
                    THEN pre_block_check(c, job, current_stage_idx.v,
                                         blocking_stage_idx.v)
                    ELSE None
         IN  IF pre.some
             THEN pre
             ELSE IF job.stage = c.blocking_stage.v
                  THEN Some(BlockingStageRunning(<<job.stage>>))
                  ELSE IF blocking_stage_idx.some /\ current_stage_idx.some
                       THEN post_block_check(c, job, current_stage_idx.v,
                                             blocking_stage_idx.v)
                       ELSE None

(* The body of the stage loop for one job: the reason it returns, or None *)
(* when the loop goes on to the next job.                                  *)
stage_job_step(c, job, stages, blocking_stage_idx) ==
    IF ~job_is_active(job.status)
    THEN None
    ELSE IF job.stage = c.blocking_stage.v
         THEN Some(BlockingStageRunning(<<job.stage>>))
         ELSE IF ~blocking_stage_idx.some
              THEN None
              ELSE LET current_stage_idx == find_stage_index(stages, job.stage)
                   IN  IF ~current_stage_idx.some
                       THEN None
                       ELSE LET pre == pre_block_check(c, job, current_stage_idx.v,
                                                       blocking_stage_idx.v)
                            IN  IF pre.some
                                THEN pre
                                ELSE post_block_check(c, job, current_stage_idx.v,
                                                      blocking_stage_idx.v)

RECURSIVE stage_job_loop(_, _, _, _, _)
stage_job_loop(c, js, stages, blocking_stage_idx, k) ==
    IF k > Len(js)
    THEN None
    ELSE LET r == stage_job_step(c, js[k], stages, blocking_stage_idx)
         IN  IF r.some
             THEN r
             ELSE stage_job_loop(c, js, stages, blocking_stage_idx, k + 1)

(* check_pipeline_blocking after the job fetch succeeded with js. *)
evaluate_jobs(c, js) ==
    LET stages == get_stage_order(js)
        named == IF c.blocking_jobs # <<>> THEN named_job_loop(c, js, 1) ELSE None
    IN  IF named.some
        THEN named
        ELSE IF c.blocking_stage.some
             THEN stage_job_loop(c, js, stages,
                                 find_stage_index(stages, c.blocking_stage.v), 1)
             ELSE None

(* check_pipeline_blocking with the job fetch moved before the mode test: *)
(* C8 does not hold of it.                                                *)
check_pipeline_blocking_fetch_first(c, pipeline) ==
    LET fetch == get_pipeline_jobs(pipeline)
    IN  [ret     |-> IF ~fetch.ok
                     THEN fetch
                     ELSE IF c.simple_mode
                          THEN Ok(Some(SimpleMode))
                          ELSE Ok(evaluate_jobs(c, fetch.v)),
         fetched |-> TRUE]

(* ret is the function's return value; fetched records whether it called *)
(* get_pipeline_jobs.                                                    *)
check_pipeline_blocking(c, pipeline) ==
    IF c.simple_mode
    THEN [ret |-> Ok(Some(SimpleMode)), fetched |-> FALSE]
    ELSE LET fetch == get_pipeline_jobs(pipeline)
         IN  [ret     |-> IF fetch.ok THEN Ok(evaluate_jobs(c, fetch.v)) ELSE fetch,
              fetched |-> TRUE]

-----------------------------------------------------------------------------
(* Active pipeline scanner *)

(* The status filter without "created": C4 does not hold of it. *)
pipeline_is_running_without_created(status) == status \in {"running", "pending"}

(* running_statuses.contains(&pipeline.status.as_str()) *)
pipeline_is_running(status) == status \in {"running", "pending", "created"}

(* The scanner's return value (res) with two observations of the pass: the *)
(* ids of the pipelines handed to the evaluator, in order, and the ids of  *)
(* those whose jobs were fetched.                                          *)
ScanState(res, evaluated, fetched) ==
    [res |-> res, evaluated |-> evaluated, fetched |-> fetched]

RECURSIVE scan_loop(_, _, _, _, _, _)
scan_loop(c, pipelines, k, blocking_pipelines, evaluated, fetched) ==
    IF k > Len(pipelines)
    THEN ScanState(Ok(blocking_pipelines), evaluated, fetched)
    ELSE IF pipeline_is_running(pipelines[k].status)
         THEN LET call == check_pipeline_blocking(c, pipelines[k])
                  ev == Append(evaluated, pipelines[k].id)
                  fe == IF call.fetched THEN Append(fetched, pipelines[k].id)
                                        ELSE fetched
              IN  IF ~call.ret.ok
                  THEN ScanState(call.ret, ev, fe)
                  ELSE IF call.ret.v.some
                       THEN scan_loop(c, pipelines, k + 1,
                                      Append(blocking_pipelines,
                                             <<pipelines[k], call.ret.v.v>>),
                                      ev, fe)
                       ELSE scan_loop(c, pipelines, k + 1, blocking_pipelines, ev, fe)
         ELSE scan_loop(c, pipelines, k + 1, blocking_pipelines, evaluated, fetched)

(* response is what get_project_pipelines returned: Ok(pipelines) or Err. *)
check_blocking_pipelines(c, response) ==
    IF ~response.ok
    THEN ScanState(response, <<>>, <<>>)
    ELSE scan_loop(c, response.v, 1, <<>>, <<>>, <<>>)

-----------------------------------------------------------------------------
(* The inputs the model draws *)

Job(name, stage, status, started_at, created_at) ==
    [name |-> name, stage |-> stage, status |-> status,
     started_at |-> started_at, created_at |-> created_at]

JobNames == {"tf", "lint"}

StageNames == {"test", "deploy", "verify"}

(* The signed elapsed seconds the drawn start timestamps lie back from the *)
(* clock: both sides of each default threshold; the last lies ahead of it. *)
StartElapsed ==
    {PostBlockDefault - 1, PostBlockDefault, PreBlockDefault - 1, PreBlockDefault, -3}

LongAgo == Rfc(NowSecs - PreBlockDefault - PostBlockDefault)

(* <<started_at, created_at>> pairs. *)
Stamps ==
    {<<Some(Rfc(NowSecs - e)), LongAgo>> : e \in StartElapsed}
    \cup {<<None, Rfc(NowSecs - (PostBlockDefault - 1))>>,
          <<Some(Garbage), Rfc(NowSecs - PreBlockDefault)>>,
          <<None, Garbage>>,
          <<Some(Garbage), Garbage>>}

(* The pairs drawn for a running job named "tf", the name the drawn *)
(* blocking_jobs setting holds: its timestamps are read only when   *)
(* that setting is empty, where the name makes no difference.       *)
NamedJobStamps ==
    {<<Some(Rfc(NowSecs - PreBlockDefault)), LongAgo>>,
     <<Some(Rfc(NowSecs + 3)), LongAgo>>,
     <<None, Garbage>>}

(* Running jobs with the pairs above; pending and finished jobs, with *)
(* one pair each.                                                     *)
JobUniverse ==
    {Job("lint", s, "running", t[1], t[2]) : s \in StageNames, t \in Stamps}
    \cup {Job("tf", s, "running", t[1], t[2]) : s \in StageNames, t \in NamedJobStamps}
    \cup {Job(n, s, "pending", None, Rfc(NowSecs - PreBlockDefault)) :
             n \in JobNames, s \in StageNames}
    \cup {Job(n, s, "success", Some(LongAgo), LongAgo) :
             n \in JobNames, s \in StageNames}

JobLists == SeqsUpTo(JobUniverse, MaxJobs)

(* Every struct new() can build from the drawn settings: the default *)
(* durations with any settings, and zero durations with a blocking    *)
(* stage (without one the durations are not read).                    *)
Configs ==
    {new(st, bj, PreBlockDefault, PostBlockDefault, CheckIntervalDefault, cs, fs) :
        st \in {None, Some("deploy")},
        bj \in {<<>>, <<"tf">>},
        cs \in BOOLEAN,
        fs \in {None, Some(FALSE)}}
    \cup {new(Some("deploy"), bj, 0, 0, CheckIntervalDefault, FALSE, None) :
        bj \in {<<>>, <<"tf">>}}

(* What the job fetch of a drawn pipeline returns. *)
JobResponses ==
    {Err("jobs"),
     Ok(<<Job("tf", "deploy", "running", Some(Rfc(NowSecs - 1)), LongAgo)>>),
     Ok(<<Job("lint", "test", "running", Some(Rfc(NowSecs - PreBlockDefault)), LongAgo),
          Job("tf", "deploy", "success", Some(LongAgo), LongAgo)>>)}

PipelineStatuses == {"running", "pending", "created", "success"}

PipelineShapes == [status : PipelineStatuses, jobs : JobResponses]

WithIds(shapes) ==
    [i \in 1..Len(shapes) |->
        [id |-> i, status |-> shapes[i].status, jobs |-> shapes[i].jobs]]

(* What get_project_pipelines can return. *)
PipelineResponses ==
    {Err("pipelines")}
    \cup {Ok(WithIds(s)) : s \in SeqsUpTo(PipelineShapes, MaxPipelines)}

NoScan == ScanState(Err("none"), <<>>, <<>>)

(* A scanner result in one word. *)
Kind(res) == IF ~res.ok THEN "error" ELSE IF res.v = <<>> THEN "empty" ELSE "blocked"

(* The structs the orchestrator runs are drawn with the default durations. *)
DefaultConfigs ==
    {c \in Configs : /\ c.pre_block_duration = PreBlockDefault
                     /\ c.post_block_duration = PostBlockDefault}

-----------------------------------------------------------------------------
(* The orchestrator: safe_push, wait_for_pipeline, do_push.                *)
(* pc: "start"  before the branch and remote discovery                     *)
(*     "check"  at the initial check_blocking_pipelines call               *)
(*     "match"  at the match on its result                                 *)
(*     "loop_scan"   at check_blocking_pipelines inside wait_for_pipeline  *)
(*     "loop_test"   at the `?` and the is_empty test after it             *)
(*     "loop_sleep"  at sleep(check_interval)                              *)
(*     "push"   at a do_push call;  "done"  safe_push has returned         *)

IdleEval ==
    /\ jobs = <<>>
    /\ evalPhase = "off"
    /\ evalStages = <<>>
    /\ evalResult = Err("none")

Init ==
    /\ cfg \in DefaultConfigs
    /\ wait \in BOOLEAN
    /\ pc = "start"
    /\ resp = Err("none")
    /\ last = NoScan
    /\ initial = "none"
    /\ loopState = "NotEntered"
    /\ loopPasses = 0
    /\ loopBlocked = 0
    /\ loopSleeps = 0
    /\ sleptSecs = 0
    /\ pushes = 0
    /\ pushedOn = "never"
    /\ outcome = "running"
    /\ IdleEval

(* get_current_branch, get_remote_url and parse_gitlab_project succeed. *)
Discover ==
    /\ pc = "start"
    /\ pc' = "check"
    /\ UNCHANGED <<cfg, wait, resp, last, initial, loopState, loopPasses, loopBlocked,
                   loopSleeps, sleptSecs, pushes, pushedOn, outcome>>
    /\ UNCHANGED evalVars

(* One of them fails: safe_push returns the error before any fetch. *)
DiscoverFails ==
    /\ pc = "start"
    /\ pc' = "done"
    /\ outcome' = "error"
    /\ UNCHANGED <<cfg, wait, resp, last, initial, loopState, loopPasses, loopBlocked,
                   loopSleeps, sleptSecs, pushes, pushedOn>>
    /\ UNCHANGED evalVars

(* match self.check_blocking_pipelines(&project_path, &branch).await *)
InitialCheck ==
    /\ pc = "check"
    /\ \E r \in PipelineResponses :
          /\ resp' = r
          /\ last' = check_blocking_pipelines(cfg, r)
          /\ initial' = Kind(check_blocking_pipelines(cfg, r).res)
    /\ pc' = "match"
    /\ UNCHANGED <<cfg, wait, loopState, loopPasses, loopBlocked,
                   loopSleeps, sleptSecs, pushes, pushedOn, outcome>>
    /\ UNCHANGED evalVars

(* Ok(blocking_pipelines) if blocking_pipelines.is_empty() *)
Authorize ==
    /\ pc = "match"
    /\ last.res.ok
    /\ last.res.v = <<>>
    /\ pc' = "push"
    /\ pushedOn' = "authorized"
    /\ UNCHANGED <<cfg, wait, resp, last, initial, loopState, loopPasses, loopBlocked,
                   loopSleeps, sleptSecs, pushes, outcome>>
    /\ UNCHANGED evalVars

(* The no-wait branch falling through to the push: C2 does not hold of it. *)
CancelThenPush ==
    /\ pc = "match"
    /\ last.res.ok
    /\ last.res.v # <<>>
    /\ ~wait
    /\ pc' = "push"
    /\ pushedOn' = "cancelled"
    /\ UNCHANGED <<cfg, wait, resp, last, initial, loopState, loopPasses, loopBlocked,
                   loopSleeps, sleptSecs, pushes, outcome>>
    /\ UNCHANGED evalVars

(* if !wait { ...; return Ok(false); } *)
Cancel ==
    /\ pc = "match"
    /\ last.res.ok
    /\ last.res.v # <<>>
    /\ ~wait
    /\ pc' = "done"
    /\ outcome' = "false"
    /\ UNCHANGED <<cfg, wait, resp, last, initial, loopState, loopPasses, loopBlocked,
                   loopSleeps, sleptSecs, pushes, pushedOn>>
    /\ UNCHANGED evalVars

(* self.wait_for_pipeline(&project_path, &branch) is entered. *)
EnterWait ==
    /\ pc = "match"
    /\ last.res.ok
    /\ last.res.v # <<>>
    /\ wait
    /\ pc' = "loop_scan"
    /\ loopState' = "Waiting"
    /\ resp' = Err("none")
    /\ last' = NoScan
    /\ UNCHANGED <<cfg, wait, initial, loopPasses, loopBlocked,
                   loopSleeps, sleptSecs, pushes, pushedOn, outcome>>
    /\ UNCHANGED evalVars

(* Err(e) => { ...; Ok(self.do_push(git_args)?) } *)
FailOpen ==
    /\ pc = "match"
    /\ ~last.res.ok
    /\ pc' = "push"
    /\ pushedOn' = "fail_open"
    /\ UNCHANGED <<cfg, wait, resp, last, initial, loopState, loopPasses, loopBlocked,
                   loopSleeps, sleptSecs, pushes, outcome>>
    /\ UNCHANGED evalVars

(* let blocking = self.check_blocking_pipelines(project_path, branch).await *)
LoopScan ==
    /\ pc = "loop_scan"
    /\ loopPasses < MaxPasses
    /\ \E r \in PipelineResponses :
          /\ resp' = r
          /\ last' = check_blocking_pipelines(cfg, r)
          /\ loopBlocked' =
                IF Kind(check_blocking_pipelines(cfg, r).res) = "blocked"
                THEN loopBlocked + 1
                ELSE loopBlocked
    /\ loopPasses' = loopPasses + 1
    /\ pc' = "loop_test"
    /\ UNCHANGED <<cfg, wait, initial, loopState, loopSleeps, sleptSecs,
                   pushes, pushedOn, outcome>>
    /\ UNCHANGED evalVars

(* The poll loop failing open like the initial check: C1 does not hold of it. *)
LoopFailsOpen ==
    /\ pc = "loop_test"
    /\ ~last.res.ok
    /\ loopState' = "Failed"
    /\ pc' = "push"
    /\ pushedOn' = "fail_open"
    /\ UNCHANGED <<cfg, wait, resp, last, initial, loopPasses, loopBlocked,
                   loopSleeps, sleptSecs, pushes, outcome>>
    /\ UNCHANGED evalVars

(* The `?` on an Err: wait_for_pipeline returns it, and so does safe_push. *)
LoopFails ==
    /\ pc = "loop_test"
    /\ ~last.res.ok
    /\ loopState' = "Failed"
    /\ pc' = "done"
    /\ outcome' = "error"
    /\ UNCHANGED <<cfg, wait, resp, last, initial, loopPasses, loopBlocked,
                   loopSleeps, sleptSecs, pushes, pushedOn>>
    /\ UNCHANGED evalVars

(* if blocking.is_empty() { ...; return Ok(()); } *)
LoopCleared ==
    /\ pc = "loop_test"
    /\ last.res.ok
    /\ last.res.v = <<>>
    /\ loopState' = "Cleared"
    /\ pc' = "push"
    /\ pushedOn' = "cleared"
    /\ UNCHANGED <<cfg, wait, resp, last, initial, loopPasses, loopBlocked,
                   loopSleeps, sleptSecs, pushes, outcome>>
    /\ UNCHANGED evalVars

(* The loop going round without the sleep: C3 does not hold of it. *)
LoopReportNoSleep ==
    /\ pc = "loop_test"
    /\ last.res.ok
    /\ last.res.v # <<>>
    /\ pc' = "loop_scan"
    /\ resp' = Err("none")
    /\ last' = NoScan
    /\ UNCHANGED <<cfg, wait, initial, loopState, loopPasses, loopBlocked,
                   loopSleeps, sleptSecs, pushes, pushedOn, outcome>>
    /\ UNCHANGED evalVars

(* if let Some((pipeline, reason)) = blocking.first() { println!... } *)
LoopReport ==
    /\ pc = "loop_test"
    /\ last.res.ok
    /\ last.res.v # <<>>
    /\ pc' = "loop_sleep"
    /\ UNCHANGED <<cfg, wait, resp, last, initial, loopState, loopPasses, loopBlocked,
                   loopSleeps, sleptSecs, pushes, pushedOn, outcome>>
    /\ UNCHANGED evalVars

(* sleep(Duration::from_secs(self.check_interval)).await; the iteration *)
(* ends and its `blocking` goes out of scope.                           *)
LoopSleep ==
    /\ pc = "loop_sleep"
    /\ loopSleeps' = loopSleeps + 1
    /\ sleptSecs' = sleptSecs + cfg.check_interval
    /\ resp' = Err("none")
    /\ last' = NoScan
    /\ pc' = "loop_scan"
    /\ UNCHANGED <<cfg, wait, initial, loopState, loopPasses, loopBlocked,
                   pushes, pushedOn, outcome>>
    /\ UNCHANGED evalVars

(* do_push: git push runs (exit status zero or not) or cannot be spawned. *)
do_push ==
    /\ pc = "push"
    /\ pushes' = pushes + 1
    /\ outcome' \in {"true", "false", "error"}
    /\ pc' = "done"
    /\ UNCHANGED <<cfg, wait, resp, last, initial, loopState, loopPasses, loopBlocked,
                   loopSleeps, sleptSecs, pushedOn>>
    /\ UNCHANGED evalVars

safe_push ==
    \/ Discover
    \/ DiscoverFails
    \/ InitialCheck
    \/ Authorize
    \/ Cancel
    \/ EnterWait
    \/ FailOpen
    \/ do_push

wait_for_pipeline ==
    \/ LoopScan
    \/ LoopFails
    \/ LoopCleared
    \/ LoopReport
    \/ LoopSleep

Next == safe_push \/ wait_for_pipeline

Spec == Init /\ [][Next]_vars

(* The process keeps running: no step of the single thread is postponed *)
(* for ever.                                                            *)
LiveSpec == Spec /\ WF_vars(Next)

-----------------------------------------------------------------------------
(* The evaluator on its own: a pipeline's job fetch returns a drawn job   *)
(* list, or fails, and check_pipeline_blocking runs on it.                *)

IdleOrch ==
    /\ wait = FALSE
    /\ pc = "eval"
    /\ resp = Err("none")
    /\ last = NoScan
    /\ initial = "none"
    /\ loopState = "NotEntered"
    /\ loopPasses = 0
    /\ loopBlocked = 0
    /\ loopSleeps = 0
    /\ sleptSecs = 0
    /\ pushes = 0
    /\ pushedOn = "never"
    /\ outcome = "running"

EvalInit ==
    /\ cfg \in Configs
    /\ jobs = <<>>
    /\ evalPhase = "input"
    /\ evalStages = <<>>
    /\ evalResult = Err("none")
    /\ IdleOrch

Evaluate ==
    /\ evalPhase = "input"
    /\ \E js \in JobLists :
          /\ jobs' = js
          /\ evalStages' = get_stage_order(js)
          /\ evalResult' =
                check_pipeline_blocking(cfg, [id |-> 1, status |-> "running",
                                              jobs |-> Ok(js)]).ret
    /\ evalPhase' = "done"
    /\ UNCHANGED cfg
    /\ UNCHANGED orchVars

EvaluateFetchFails ==
    /\ evalPhase = "input"
    /\ jobs' = <<>>
    /\ evalStages' = <<>>
    /\ evalResult' =
          check_pipeline_blocking(cfg, [id |-> 1, status |-> "running",
                                        jobs |-> Err("jobs")]).ret
    /\ evalPhase' = "failed"
    /\ UNCHANGED cfg
    /\ UNCHANGED orchVars

EvalNext == Evaluate \/ EvaluateFetchFails

EvalSpec == EvalInit /\ [][EvalNext]_vars

-----------------------------------------------------------------------------
(* Vocabulary of the claims, stated from the job list alone *)

ActiveJobs(js) == {k \in 1..Len(js) : js[k].status \in {"running", "pending"}}

StagesOf(js) == {js[k].stage : k \in 1..Len(js)}

FirstOccurrence(js, s) ==
    CHOOSE k \in 1..Len(js) :
        /\ js[k].stage = s
        /\ \A m \in 1..(k - 1) : js[m].stage # s

(* The 0-based position of stage s in the StageOrder of js: the number of *)
(* stages that first occur before it.                                     *)
StageIndexOf(js, s) ==
    Cardinality({t \in StagesOf(js) : FirstOccurrence(js, t) < FirstOccurrence(js, s)})

(* now - start, or now - creation, as a signed number of seconds; None *)
(* when neither timestamp is usable.                                   *)
SignedElapsed(job) ==
    IF job.started_at.some /\ job.started_at.v.rfc
    THEN Some(NowSecs - job.started_at.v.secs)
    ELSE IF job.created_at.rfc
         THEN Some(NowSecs - job.created_at.secs)
         ELSE None

NamedActive(c, js) ==
    {k \in ActiveJobs(js) : \E i \in 1..Len(c.blocking_jobs) : c.blocking_jobs[i] = js[k].name}

Evaluated == evalPhase = "done"

(* The case of C5 and C6: advanced mode, the blocking stage is in the     *)
(* StageOrder, exactly one job is active, it is no named blocking job, it *)
(* sits `offset` stages from the blocking stage and has a non-negative    *)
(* elapsed time.                                                          *)
LoneNeighbour(k, offset) ==
    /\ Evaluated
    /\ ~cfg.simple_mode
    /\ cfg.blocking_stage.some
    /\ ActiveJobs(jobs) = {k}
    /\ SignedElapsed(jobs[k]).some
    /\ SignedElapsed(jobs[k]).v >= 0
    /\ NamedActive(cfg, jobs) = {}
    /\ cfg.blocking_stage.v \in StagesOf(jobs)
    /\ StageIndexOf(jobs, jobs[k].stage)
          = StageIndexOf(jobs, cfg.blocking_stage.v) + offset

-----------------------------------------------------------------------------
(* C5: the pre-block boundary is inclusive. With the blocking stage at     *)
(* index i >= 1 of the StageOrder and the only active job in the stage at  *)
(* index i-1 (no named blocking job active), the evaluator returns         *)
(* PreBlockingStage(stage, elapsed) when elapsed >= pre_block_duration and *)
(* none when 0 <= elapsed < pre_block_duration.                            *)
C5_PreBlockInclusive ==
    \A k \in 1..Len(jobs) :
        LoneNeighbour(k, -1) =>
            LET e == SignedElapsed(jobs[k]).v
            IN  evalResult =
                    IF e >= cfg.pre_block_duration
                    THEN Ok(Some(PreBlockingStage(<<jobs[k].stage>>,
                                                  [wrapped |-> FALSE, n |-> e])))
                    ELSE Ok(None)

(* A lone job in the stage before the blocking stage whose elapsed time is *)
(* exactly a positive pre_block_duration, reported as pre-blocking.        *)
C5_Witness ==
    \E k \in 1..Len(jobs) :
        /\ LoneNeighbour(k, -1)
        /\ cfg.pre_block_duration > 0
        /\ SignedElapsed(jobs[k]).v = cfg.pre_block_duration
        /\ evalResult.v.some
        /\ evalResult.v.v.tag = "PreBlockingStage"

(* C6: the post-block boundary is exclusive. With the only active job in   *)
(* the stage at index i+1 (no named blocking job active), the evaluator    *)
(* returns BlockingStageRunning(stage + " (post-block)") when              *)
(* 0 <= elapsed < post_block_duration and none when                        *)
(* elapsed >= post_block_duration; with post_block_duration = 0 it never   *)
(* blocks.                                                                 *)
C6_PostBlockExclusive ==
    \A k \in 1..Len(jobs) :
        LoneNeighbour(k, 1) =>
            LET e == SignedElapsed(jobs[k]).v
            IN  /\ evalResult =
                      IF e < cfg.post_block_duration
                      THEN Ok(Some(BlockingStageRunning(<<jobs[k].stage, " (post-block)">>)))
                      ELSE Ok(None)
                /\ cfg.post_block_duration = 0 => evalResult = Ok(None)

(* A lone job in the stage after the blocking stage whose elapsed time is *)
(* exactly a positive post_block_duration, not reported.                  *)
C6_Witness ==
    \E k \in 1..Len(jobs) :
        /\ LoneNeighbour(k, 1)
        /\ cfg.post_block_duration > 0
        /\ SignedElapsed(jobs[k]).v = cfg.post_block_duration
        /\ evalResult = Ok(None)

(* C7: get_stage_order returns each stage name of the job list exactly    *)
(* once and no other name, ordered by first occurrence; it is no longer   *)
(* than the job list, and empty for the empty list.                       *)
C7_StageOrder ==
    Evaluated =>
        /\ Range(evalStages) = StagesOf(jobs)
        /\ \A i, j \in 1..Len(evalStages) : i # j => evalStages[i] # evalStages[j]
        /\ \A i, j \in 1..Len(evalStages) :
              i < j => FirstOccurrence(jobs, evalStages[i])
                          < FirstOccurrence(jobs, evalStages[j])
        /\ Len(evalStages) <= Len(jobs)
        /\ jobs = <<>> => evalStages = <<>>

(* A job list that repeats a stage: the order has it once. *)
C7_Witness ==
    /\ Evaluated
    /\ Len(jobs) = MaxJobs
    /\ jobs[1].stage = "verify"
    /\ jobs[Len(jobs)].stage = "verify"
    /\ evalStages[1] = "verify"
    /\ Len(evalStages) = Len(jobs) - 1

-----------------------------------------------------------------------------
(* Job k is active, is no named blocking job, sits in the stage right *)
(* before or right after the blocking stage, and has no elapsed value. *)
NoElapsedNeighbour(k) ==
    /\ Evaluated
    /\ k \in 1..Len(jobs)
    /\ ~cfg.simple_mode
    /\ cfg.blocking_stage.some
    /\ SignedElapsed(jobs[k]) = None
    /\ k \in ActiveJobs(jobs)
    /\ k \notin NamedActive(cfg, jobs)
    /\ cfg.blocking_stage.v \in StagesOf(jobs)
    /\ \/ StageIndexOf(jobs, jobs[k].stage)
             = StageIndexOf(jobs, cfg.blocking_stage.v) - 1
       \/ StageIndexOf(jobs, jobs[k].stage)
             = StageIndexOf(jobs, cfg.blocking_stage.v) + 1

(* The job list with job k finished. *)
Finished(js, k) == [js EXCEPT ![k].status = "success"]

(* C9: seconds_since_start uses the start timestamp when it is present and *)
(* parses, otherwise the creation timestamp when that parses, and yields   *)
(* no value otherwise. An active job next to the blocking stage that has   *)
(* no elapsed value gives neither PreBlockingStage nor the post-block      *)
(* reason: the evaluator raises no error and returns what the remaining    *)
(* jobs give (none when there is no other active job).                     *)
C9_NoElapsedValue ==
    Evaluated =>
        /\ \A k \in 1..Len(jobs) :
              LET j == jobs[k]
                  s == seconds_since_start(j.started_at, j.created_at)
                  startUsable == j.started_at.some /\ j.started_at.v.rfc
              IN  /\ s.some <=> (startUsable \/ j.created_at.rfc)
                  /\ s.some =>
                        s.v.n = NowSecs - (IF startUsable THEN j.started_at.v.secs
                                                          ELSE j.created_at.secs)
        /\ evalResult.ok
        /\ \A k \in 1..Len(jobs) :
              NoElapsedNeighbour(k) =>
                  /\ evalResult = Ok(evaluate_jobs(cfg, Finished(jobs, k)))
                  /\ ActiveJobs(jobs) = {k} => evalResult = Ok(None)
        /\ (evalResult.v.some
              /\ evalResult.v.v.tag = "PreBlockingStage") =>
                 \E k \in ActiveJobs(jobs) :
                     /\ evalResult.v.v.stage = <<jobs[k].stage>>
                     /\ SignedElapsed(jobs[k]).some
        /\ (evalResult.v.some
              /\ evalResult.v.v.tag = "BlockingStageRunning"
              /\ Len(evalResult.v.v.stage) = 2) =>
                 \E k \in ActiveJobs(jobs) :
                     /\ evalResult.v.v.stage = <<jobs[k].stage, " (post-block)">>
                     /\ SignedElapsed(jobs[k]).some

(* The first job is next to the blocking stage and has no elapsed value: *)
(* the reason returned comes from the job after it.                      *)
C9_Witness ==
    /\ NoElapsedNeighbour(1)
    /\ Len(jobs) = 2
    /\ SignedElapsed(jobs[2]).some
    /\ evalResult.v.some
    /\ evalResult.v.v.tag \in {"PreBlockingStage", "BlockingStageRunning"}

-----------------------------------------------------------------------------
(* The decision procedure of the specification (section 4.2), stated as a *)
(* first match over the job list, with the elapsed seconds of 4.2.1.      *)

RuleA(c, js, k) == js[k].stage = c.blocking_stage.v

RuleB(c, js, k) ==
    /\ c.blocking_stage.v \in StagesOf(js)
    /\ StageIndexOf(js, js[k].stage) = StageIndexOf(js, c.blocking_stage.v) - 1
    /\ SignedElapsed(js[k]).some
    /\ SignedElapsed(js[k]).v >= c.pre_block_duration

RuleC(c, js, k) ==
    /\ c.blocking_stage.v \in StagesOf(js)
    /\ StageIndexOf(js, js[k].stage) = StageIndexOf(js, c.blocking_stage.v) + 1
    /\ SignedElapsed(js[k]).some
    /\ SignedElapsed(js[k]).v < c.post_block_duration

StageMatches(c, js) ==
    {k \in ActiveJobs(js) : RuleA(c, js, k) \/ RuleB(c, js, k) \/ RuleC(c, js, k)}

First(S) == CHOOSE k \in S : \A m \in S : k <= m

RuleReason(c, js, k) ==
    IF RuleA(c, js, k)
    THEN BlockingStageRunning(<<js[k].stage>>)
    ELSE IF RuleB(c, js, k)
         THEN PreBlockingStage(<<js[k].stage>>, AsU64(SignedElapsed(js[k]).v))
         ELSE BlockingStageRunning(<<js[k].stage, " (post-block)">>)

SpecProcedure(c, js) ==
    IF NamedActive(c, js) # {}
    THEN Some(BlockingJobRunning(js[First(NamedActive(c, js))].name))
    ELSE IF c.blocking_stage.some /\ StageMatches(c, js) # {}
         THEN Some(RuleReason(c, js, First(StageMatches(c, js))))
         ELSE None

(* No job's timestamp in use lies ahead of the clock. *)
NoFutureStamp(js) ==
    \A k \in 1..Len(js) : SignedElapsed(js[k]).some => SignedElapsed(js[k]).v >= 0

(* C10: in advanced mode the evaluator's result is the first match of the *)
(* specification's procedure, for every job list: the first active named  *)
(* job; otherwise the first active job that satisfies rule a, b or c;     *)
(* otherwise none.                                                        *)
C10_FirstMatch ==
    (Evaluated /\ ~cfg.simple_mode) => evalResult = Ok(SpecProcedure(cfg, jobs))

(* The same, for the job lists none of whose timestamps lies ahead of the *)
(* clock.                                                                 *)
C10_FirstMatchPastStamps ==
    (Evaluated /\ ~cfg.simple_mode /\ NoFutureStamp(jobs)) =>
        evalResult = Ok(SpecProcedure(cfg, jobs))

-----------------------------------------------------------------------------
(* The blocking stage is configured and is the first stage of the *)
(* StageOrder of the evaluated job list (advanced mode).          *)
BlockingStageFirst ==
    /\ Evaluated
    /\ ~cfg.simple_mode
    /\ cfg.blocking_stage.some
    /\ jobs # <<>>
    /\ jobs[1].stage = cfg.blocking_stage.v

IsPreBlocking(r) == r.ok /\ r.v.some /\ r.v.v.tag = "PreBlockingStage"

(* C11: when the blocking stage is at index 0 of the StageOrder, the       *)
(* evaluator never returns PreBlockingStage, whatever the job list and the *)
(* elapsed times: the stage index is found at 0, blocking_idx              *)
(* .saturating_sub(1) is 0, every active job whose stage has index 0 is in *)
(* the blocking stage, and such a job is reported as                       *)
(* BlockingStageRunning(blocking stage) by the test made before.           *)
C11_FirstStageNeverPreBlocks ==
    BlockingStageFirst =>
        /\ find_stage_index(evalStages, cfg.blocking_stage.v) = Some(0)
        /\ StageIndexOf(jobs, cfg.blocking_stage.v) = 0
        /\ is_pre_block_stage(0, 0)
        /\ ~IsPreBlocking(evalResult)
        /\ \A k \in ActiveJobs(jobs) :
              find_stage_index(evalStages, jobs[k].stage) = Some(0) =>
                  /\ jobs[k].stage = cfg.blocking_stage.v
                  /\ stage_job_step(cfg, jobs[k], evalStages, Some(0))
                        = Some(BlockingStageRunning(<<cfg.blocking_stage.v>>))
                  /\ (NamedActive(cfg, jobs) = {} /\ k = First(ActiveJobs(jobs))) =>
                        evalResult =
                            Ok(Some(BlockingStageRunning(<<cfg.blocking_stage.v>>)))

(* The blocking stage is first, no named blocking job is active, and the *)
(* first job is active in it with an elapsed time that passes the        *)
(* pre-block comparison (a positive pre_block_duration): it is reported  *)
(* as BlockingStageRunning.                                              *)
C11_Witness ==
    /\ BlockingStageFirst
    /\ NamedActive(cfg, jobs) = {}
    /\ 1 \in ActiveJobs(jobs)
    /\ cfg.pre_block_duration > 0
    /\ LET s == seconds_since_start(jobs[1].started_at, jobs[1].created_at)
       IN  s.some /\ pre_block_reached(s.v, cfg.pre_block_duration)
    /\ evalResult = Ok(Some(BlockingStageRunning(<<cfg.blocking_stage.v>>)))

-----------------------------------------------------------------------------
(* Job k of the evaluated list is the one a PreBlockingStage result r is *)
(* about: an active job of the reported stage whose signed elapsed time  *)
(* is the reported number of seconds.                                    *)
ReportedJob(r, k) ==
    /\ k \in ActiveJobs(jobs)
    /\ r.v.v.stage = <<jobs[k].stage>>
    /\ SignedElapsed(jobs[k]).some
    /\ r.v.v.seconds = [wrapped |-> FALSE, n |-> SignedElapsed(jobs[k]).v]

(* Job k is active and its timestamp in use lies ahead of the clock. *)
AheadOfClock(k) ==
    /\ k \in ActiveJobs(jobs)
    /\ SignedElapsed(jobs[k]).some
    /\ SignedElapsed(jobs[k]).v < 0

(* C12: the evaluator returns PreBlockingStage(stage, s) only for a job    *)
(* that has been active at least pre_block_duration seconds, s being the   *)
(* signed difference now - start (now - creation when the start is absent  *)
(* or does not parse) and s >= pre_block_duration; a job whose timestamp   *)
(* lies ahead of the clock is not reported as pre-blocking when            *)
(* pre_block_duration > 0.                                                 *)
C12_PreBlockSignedElapsed ==
    (Evaluated /\ IsPreBlocking(evalResult)) =>
        /\ \E k \in 1..Len(jobs) :
              /\ ReportedJob(evalResult, k)
              /\ SignedElapsed(jobs[k]).v >= cfg.pre_block_duration
        /\ cfg.pre_block_duration > 0 =>
              \A k \in 1..Len(jobs) :
                  AheadOfClock(k) => evalResult.v.v.stage # <<jobs[k].stage>>

(* The same, for the job lists none of whose timestamps lies ahead of the *)
(* clock: the reported seconds are the signed difference, and it is at    *)
(* least pre_block_duration.                                              *)
C12_PreBlockPastStamps ==
    (Evaluated /\ IsPreBlocking(evalResult) /\ NoFutureStamp(jobs)) =>
        \E k \in 1..Len(jobs) :
            /\ ReportedJob(evalResult, k)
            /\ SignedElapsed(jobs[k]).v >= cfg.pre_block_duration

(* The only active job has a start timestamp ahead of the clock, and the *)
(* evaluator reports it as pre-blocking with a wrapped count of seconds, *)
(* under a positive pre_block_duration.                                  *)
C12_WrappedReport ==
    /\ Evaluated
    /\ IsPreBlocking(evalResult)
    /\ cfg.pre_block_duration > 0
    /\ evalResult.v.v.seconds.wrapped
    /\ \E k \in 1..Len(jobs) :
          /\ ActiveJobs(jobs) = {k}
          /\ AheadOfClock(k)
          /\ evalResult.v.v.stage = <<jobs[k].stage>>

-----------------------------------------------------------------------------
(* C1: a fetch error on the initial check leads to do_push (fail-open); a *)
(* fetch error on a scanner pass inside wait_for_pipeline ends the run    *)
(* with an error, is followed by no further pass, and do_push is never    *)
(* invoked. So in a finished run with a fetch error the push was executed *)
(* if and only if the error was the initial check's.                      *)
C1_FetchErrorPolicy ==
    /\ initial = "error" =>
          /\ pc \in {"match", "push", "done"}
          /\ loopState = "NotEntered"
          /\ loopPasses = 0
          /\ pc = "push" => pushedOn = "fail_open"
          /\ pc = "done" => pushes = 1
    /\ loopState = "Failed" =>
          /\ initial = "blocked"
          /\ Kind(last.res) = "error"
          /\ pc = "done"
          /\ outcome = "error"
          /\ pushes = 0
    /\ (pc = "done" /\ (initial = "error" \/ loopState = "Failed")) =>
          (pushes = 1 <=> initial = "error")

(* A run whose second pass inside the poll loop met a fetch error. *)
C1_Witness ==
    /\ loopState = "Failed"
    /\ loopPasses = 2
    /\ pc = "done"
    /\ pushes = 0

(* C2: do_push is invoked at most once, and only when the most recent    *)
(* scanner pass returned an empty list or the initial check failed with  *)
(* a fetch error. With a non-empty initial blocking list and waiting     *)
(* disabled there is no push, the poll loop is not entered, and the run  *)
(* returns false.                                                        *)
C2_PushOnlyWhenClear ==
    /\ pushes <= 1
    /\ (pc = "push" \/ pushes = 1) =>
          \/ Kind(last.res) = "empty"
          \/ /\ initial = "error"
             /\ Kind(last.res) = "error"
             /\ loopPasses = 0
    /\ (initial = "blocked" /\ ~wait) =>
          /\ pushes = 0
          /\ pc \in {"match", "done"}
          /\ loopState = "NotEntered"
          /\ loopPasses = 0
          /\ pc = "done" => outcome = "false"

(* A finished run that met a blocking pipeline with waiting disabled. *)
C2_Witness ==
    /\ initial = "blocked"
    /\ ~wait
    /\ pc = "done"
    /\ pushes = 0
    /\ outcome = "false"

-----------------------------------------------------------------------------
(* The poll loop's bookkeeping at each of its positions. *)
LoopInvariant ==
    /\ loopState = "NotEntered" => loopPasses = 0 /\ loopSleeps = 0
    /\ sleptSecs = loopSleeps * cfg.check_interval
    /\ pc = "loop_scan" =>
          /\ loopState = "Waiting"
          /\ loopSleeps = loopPasses
          /\ loopBlocked = loopPasses
    /\ pc = "loop_test" =>
          /\ loopState = "Waiting"
          /\ loopPasses = loopSleeps + 1
          /\ loopBlocked = loopSleeps + (IF Kind(last.res) = "blocked" THEN 1 ELSE 0)
    /\ pc = "loop_sleep" =>
          /\ loopState = "Waiting"
          /\ Kind(last.res) = "blocked"
          /\ loopPasses = loopSleeps + 1
          /\ loopBlocked = loopPasses
    /\ loopState = "Cleared" =>
          /\ pc \in {"push", "done"}
          /\ Kind(last.res) = "empty"
          /\ loopPasses = loopSleeps + 1
          /\ loopBlocked = loopPasses - 1

(* The loop is entered in Waiting at a scanner pass; Waiting is left only *)
(* at the test after a pass: to Cleared when the pass returned an empty   *)
(* list, to Failed when it returned an error; after Cleared nothing more  *)
(* is scanned or slept.                                                   *)
LoopSteps ==
    /\ (loopState = "NotEntered" /\ loopState' # "NotEntered") =>
          loopState' = "Waiting" /\ pc' = "loop_scan"
    /\ (loopState = "Waiting" /\ loopState' # "Waiting") =>
          /\ pc = "loop_test"
          /\ loopState' = "Cleared" <=> Kind(last.res) = "empty"
          /\ loopState' = "Failed" <=> Kind(last.res) = "error"
          /\ loopSleeps' = loopSleeps
    /\ (pc = "loop_test" /\ Kind(last.res) = "empty") => loopState' = "Cleared"
    /\ (pc = "loop_test" /\ Kind(last.res) = "blocked") =>
          loopState' = "Waiting" /\ pc' = "loop_sleep"
    /\ pc = "loop_sleep" =>
          /\ pc' = "loop_scan"
          /\ loopSleeps' = loopSleeps + 1
          /\ sleptSecs' = sleptSecs + cfg.check_interval
    /\ pc = "loop_scan" => pc' = "loop_test" /\ loopPasses' = loopPasses + 1
    /\ loopState \in {"Cleared", "Failed"} =>
          /\ loopState' = loopState
          /\ loopPasses' = loopPasses
          /\ loopSleeps' = loopSleeps

(* C3: the poll loop starts in Waiting and reaches Cleared exactly at the  *)
(* first scanner pass that returns an empty list, without sleeping after   *)
(* it; after a pass that returns a non-empty list it stays in Waiting,     *)
(* sleeps check_interval seconds once and runs one further pass, for as    *)
(* many passes as the list stays non-empty. With no fetch error and weak   *)
(* fairness it reaches Cleared once a pass has returned empty, comes back   *)
(* to the scanner after every non-empty pass, and is never Cleared while   *)
(* every pass returned a non-empty list.                                   *)
C3_PollLoop ==
    /\ []LoopInvariant
    /\ [][LoopSteps]_vars
    /\ (pc = "loop_test" /\ Kind(last.res) = "empty") ~> (loopState = "Cleared")
    /\ (pc = "loop_test" /\ Kind(last.res) = "blocked")
          ~> (pc = "loop_scan" /\ loopSleeps = loopPasses)

(* The loop cleared at its last pass within the bound, after sleeping *)
(* once after each earlier pass.                                      *)
C3_Witness ==
    /\ loopState = "Cleared"
    /\ loopPasses = MaxPasses
    /\ loopBlocked = MaxPasses - 1
    /\ loopSleeps = MaxPasses - 1
    /\ sleptSecs = (MaxPasses - 1) * CheckIntervalDefault

-----------------------------------------------------------------------------
ActiveStatus(p) == p.status \in {"running", "pending", "created"}

(* C4: when no fetch fails, the scanner returns the order-preserving     *)
(* subsequence of the fetched pipelines whose status is running, pending *)
(* or created and for which the evaluator gives a reason, each paired    *)
(* with that reason; pipelines of any other status are not evaluated,    *)
(* and an empty fetched list gives an empty result.                      *)
C4_ScannerSubsequence ==
    (resp.ok /\ last.res.ok) =>
        LET Blocks(p) == ActiveStatus(p) /\ check_pipeline_blocking(cfg, p).ret.v.some
            kept == SelectSeq(resp.v, Blocks)
            active == SelectSeq(resp.v, ActiveStatus)
        IN  /\ last.res.v =
                  [i \in 1..Len(kept) |->
                      <<kept[i], check_pipeline_blocking(cfg, kept[i]).ret.v.v>>]
            /\ last.evaluated = [i \in 1..Len(active) |-> active[i].id]
            /\ resp.v = <<>> => last.res.v = <<>>

(* Two pipelines fetched: the first finished, with a job list that would *)
(* block, the second created and blocking; only the second is returned.  *)
C4_Witness ==
    /\ resp.ok
    /\ last.res.ok
    /\ ~cfg.simple_mode
    /\ Len(resp.v) = 2
    /\ resp.v[1].status = "success"
    /\ resp.v[1].jobs.ok
    /\ evaluate_jobs(cfg, resp.v[1].jobs.v).some
    /\ resp.v[2].status = "created"
    /\ Len(last.res.v) = 1
    /\ last.res.v[1][1].id = 2
    /\ last.evaluated = <<2>>

(* C8: in simple mode the evaluator returns SimpleMode for every pipeline *)
(* without fetching its jobs, so the scanner returns every fetched        *)
(* pipeline of status running, pending or created with reason SimpleMode  *)
(* and no job fetch error arises.                                         *)
C8_SimpleMode ==
    (cfg.simple_mode /\ resp.ok) =>
        LET active == SelectSeq(resp.v, ActiveStatus)
        IN  /\ \A k \in 1..Len(resp.v) :
                  check_pipeline_blocking(cfg, resp.v[k])
                      = [ret |-> Ok(Some(SimpleMode)), fetched |-> FALSE]
            /\ last.res = Ok([i \in 1..Len(active) |-> <<active[i], SimpleMode>>])
            /\ last.fetched = <<>>

(* Simple mode, and a running pipeline whose job fetch would fail: it is *)
(* returned with SimpleMode.                                             *)
C8_Witness ==
    /\ cfg.simple_mode
    /\ resp.ok
    /\ Len(resp.v) = 2
    /\ resp.v[2].status = "running"
    /\ ~resp.v[2].jobs.ok
    /\ last.res.ok
    /\ \E i \in 1..Len(last.res.v) : last.res.v[i] = <<resp.v[2], SimpleMode>>

====
